---- MODULE Spec2Model ----
(***************************************************************************)
(* microhex: a terminal hex editor.  The model is the editor state machine *)
(* of src/src/editor.rs (struct MicroHex, handle_key_event, save) together *)
(* with the operations of src/src/edit.rs, src/src/navigation.rs and       *)
(* src/src/search.rs that handle_key_event dispatches to.                  *)
(*                                                                         *)
(* Vectors are sequences; a Rust index i (0-based) is i + 1 here.          *)
(* Option<T> is a sequence of length at most one: None is << >> and        *)
(* Some(x) is << x >>.                                                     *)
(* An out-of-bounds index (Vec indexing, Vec::remove) aborts the process:  *)
(* the handler stops where the panic happens and pc becomes "panicked".    *)
(***************************************************************************)
EXTENDS Integers, Sequences, FiniteSets, TLC

VARIABLES
    bytes,           \* MicroHex.bytes: the buffer being edited
    original_bytes,  \* MicroHex.original_bytes: baseline for change display
    undo_stack,      \* MicroHex.undo_stack: Vec<UndoState>
    offset,          \* MicroHex.offset: first byte shown
    cursor_pos,      \* MicroHex.cursor_pos
    mode,            \* MicroHex.mode
    modified,        \* MicroHex.modified
    pending_nibble,  \* MicroHex.pending_nibble: Option<u8>
    search_state,    \* MicroHex.search_state: Option<SearchState>
    disk,            \* the bytes of the file named MicroHex.filename
    pc,              \* "running", "exited", "io_error" or "panicked"
    hist,            \* history: the last command and what the claims need of the past
    steps            \* history: the number of commands handled so far

vars == << bytes, original_bytes, undo_stack, offset, cursor_pos, mode, modified,
           pending_nibble, search_state, disk, pc, hist, steps >>

prog == << bytes, original_bytes, undo_stack, offset, cursor_pos, mode, modified,
           pending_nibble, search_state, disk >>

-----------------------------------------------------------------------------
(* Bounds of the model *)

\* Rows of the terminal, as terminal::size() reports them to MicroHex::new.
TermRows == 6

\* A session handles any number of commands; the model follows each session
\* for this many.
MaxSteps == 6

-----------------------------------------------------------------------------
(* Program constants and types *)

bytes_per_line == 16

Max(a, b) == IF a >= b THEN a ELSE b
Min(a, b) == IF a <= b THEN a ELSE b

\* usize::saturating_sub
saturating_sub(a, b) == IF a >= b THEN a - b ELSE 0

\* editor.rs: lines_per_page = (rows as usize).saturating_sub(4).max(1)
lines_per_page == Max(saturating_sub(TermRows, 4), 1)

View == "View"
EditHex == "EditHex"
EditAscii == "EditAscii"

None == << >>
Some(x) == << x >>

\* Characters are code points.  The characters the EditChar command is tried
\* with: '1', 'A' (hex digits and ASCII) and U+00E9 (neither).
EditChars == {49, 65, 233}

\* char::is_ascii
is_ascii(c) == c < 128

\* char::to_digit(16): Some(d) for 0-9, a-f, A-F
to_digit16(c) ==
    IF c >= 48 /\ c <= 57 THEN Some(c - 48)
    ELSE IF c >= 97 /\ c <= 102 THEN Some(c - 97 + 10)
    ELSE IF c >= 65 /\ c <= 70 THEN Some(c - 65 + 10)
    ELSE None

\* (b & 0x0F) | (d << 4) on u8
SetHighNibble(b, d) == ((b % 16) + d * 16) % 256

\* SetLowNibble with the digit shifted into the high nibble
SetLowNibble_Shifted(b, d) == ((b % 16) + d * 16) % 256

\* (b & 0xF0) | d on u8
SetLowNibble(b, d) == (b \div 16) * 16 + d

-----------------------------------------------------------------------------
(* search.rs: pure functions.  Strings are sequences of ASCII code points. *)

\* char::is_whitespace, on ASCII
is_whitespace(c) == c \in {9, 10, 11, 12, 13, 32}

\* char::is_ascii_hexdigit
is_ascii_hexdigit(c) ==
    \/ (c >= 48 /\ c <= 57)
    \/ (c >= 97 /\ c <= 102)
    \/ (c >= 65 /\ c <= 70)

\* the value of one hex digit character, as u8::from_str_radix(_, 16) reads it
HexVal(c) ==
    IF c >= 48 /\ c <= 57 THEN c - 48
    ELSE IF c >= 97 /\ c <= 102 THEN c - 97 + 10
    ELSE c - 65 + 10

RECURSIVE TrimStart(_)
TrimStart(s) ==
    IF s # << >> /\ is_whitespace(Head(s)) THEN TrimStart(Tail(s)) ELSE s

RECURSIVE TrimEnd(_)
TrimEnd(s) ==
    IF s # << >> /\ is_whitespace(s[Len(s)])
    THEN TrimEnd(SubSeq(s, 1, Len(s) - 1))
    ELSE s

\* str::trim
trim(s) == TrimEnd(TrimStart(s))

\* str::starts_with
starts_with(s, p) == Len(s) >= Len(p) /\ SubSeq(s, 1, Len(p)) = p

\* &s[n..]
DropPrefix(s, n) == SubSeq(s, n + 1, Len(s))

\* Variant of the whitespace filter that keeps the string as typed
StripWhitespace_Keep(s) == s

\* .chars().filter(|c| !c.is_whitespace()).collect()
RECURSIVE StripWhitespace(_)
StripWhitespace(s) ==
    IF s = << >> THEN << >>
    ELSE IF is_whitespace(Head(s)) THEN StripWhitespace(Tail(s))
    ELSE << Head(s) >> \o StripWhitespace(Tail(s))

AllHex(s) == \A i \in 1..Len(s) : is_ascii_hexdigit(s[i])

\* (0..len).step_by(2).map(|i| u8::from_str_radix(&s[i..i + 2], 16)), for a
\* string of hex digits of even length
RECURSIVE HexPairs(_)
HexPairs(s) ==
    IF Len(s) < 2 THEN << >>
    ELSE << HexVal(s[1]) * 16 + HexVal(s[2]) >> \o HexPairs(DropPrefix(s, 2))

\* search.rs parse_pattern: Option<Vec<u8>>
parse_pattern(input) ==
    LET trimmed == trim(input) IN
    IF trimmed = << >> THEN None
    ELSE IF starts_with(trimmed, << 48, 120 >>) \/ starts_with(trimmed, << 48, 88 >>)
    THEN LET hex_part == DropPrefix(trimmed, 2)
             hex_clean == StripWhitespace(hex_part)
             hex_padded == IF Len(hex_clean) % 2 = 1
                           THEN << 48 >> \o hex_clean
                           ELSE hex_clean
         IN  IF hex_part = << >> THEN None
             ELSE IF ~AllHex(hex_padded) THEN None
             ELSE Some(HexPairs(hex_padded))
    ELSE IF starts_with(trimmed, << 116, 101, 120, 116, 58 >>)
    THEN Some(DropPrefix(trimmed, 5))
    ELSE IF AllHex(trimmed) /\ Len(trimmed) % 2 = 0
    THEN Some(HexPairs(trimmed))
    ELSE Some(trimmed)

\* Variant of the window scan that resumes after the end of a match
RECURSIVE MatchesFrom_NoOverlap(_, _, _)
MatchesFrom_NoOverlap(data, pattern, i) ==
    IF i + Len(pattern) > Len(data) THEN << >>
    ELSE IF SubSeq(data, i + 1, i + Len(pattern)) = pattern
    THEN << i >> \o MatchesFrom_NoOverlap(data, pattern, i + Len(pattern))
    ELSE MatchesFrom_NoOverlap(data, pattern, i + 1)

\* search.rs search_all_bytes: the start (0-based) of every window equal to pattern
RECURSIVE MatchesFrom(_, _, _)
MatchesFrom(data, pattern, i) ==
    IF i + Len(pattern) > Len(data) THEN << >>
    ELSE (IF SubSeq(data, i + 1, i + Len(pattern)) = pattern THEN << i >> ELSE << >>)
         \o MatchesFrom(data, pattern, i + 1)

search_all_bytes(data, pattern) ==
    IF pattern = << >> \/ Len(pattern) > Len(data) THEN << >>
    ELSE MatchesFrom(data, pattern, 0)

\* SearchState::new
SearchState_new(data, pattern) ==
    LET matches == search_all_bytes(data, pattern) IN
    IF matches = << >> THEN None
    ELSE Some([matches |-> matches, current_index |-> 0])

\* SearchState::current_position; the index is 0-based
current_position(st) == st.matches[st.current_index + 1]

\* Variant of next_match that stays on the last match
next_match_Clamped(st) ==
    [st EXCEPT !.current_index = Min(st.current_index + 1, Len(st.matches) - 1)]

\* SearchState::next_match
next_match(st) ==
    [st EXCEPT !.current_index = (st.current_index + 1) % Len(st.matches)]

\* SearchState::prev_match
prev_match(st) ==
    [st EXCEPT !.current_index =
        IF st.current_index = 0 THEN Len(st.matches) - 1 ELSE st.current_index - 1]

-----------------------------------------------------------------------------
(* edit.rs.  Each operation is an action on the editor's fields and pc. *)

Running == pc = "running"

\* cycle_mode without the reset of the pending nibble
cycle_mode_KeepsPending ==
    /\ mode' = (CASE mode = View -> EditHex
                  [] mode = EditHex -> EditAscii
                  [] mode = EditAscii -> View)
    /\ UNCHANGED << bytes, original_bytes, undo_stack, offset, cursor_pos, modified,
                    pending_nibble, search_state, pc >>

\* edit.rs cycle_mode
cycle_mode ==
    /\ mode' = (CASE mode = View -> EditHex
                  [] mode = EditHex -> EditAscii
                  [] mode = EditAscii -> View)
    /\ pending_nibble' = None
    /\ UNCHANGED << bytes, original_bytes, undo_stack, offset, cursor_pos, modified,
                    search_state, pc >>

\* Variant of undo that takes the oldest snapshot of the log
undo_Oldest ==
    IF undo_stack # << >>
    THEN LET prev == undo_stack[1] IN
         /\ undo_stack' = Tail(undo_stack)
         /\ bytes' = prev.bytes
         /\ cursor_pos' = prev.cursor_pos
         /\ offset' = prev.offset
         /\ pending_nibble' = prev.pending_nibble
         /\ modified' = (prev.bytes # original_bytes)
         /\ UNCHANGED << original_bytes, mode, search_state, pc >>
    ELSE UNCHANGED << bytes, original_bytes, undo_stack, offset, cursor_pos, mode,
                      modified, pending_nibble, search_state, pc >>

\* Variant of undo that marks the buffer clean when there is nothing to undo
undo_CleanOnEmpty ==
    IF undo_stack # << >>
    THEN LET prev == undo_stack[Len(undo_stack)] IN
         /\ undo_stack' = SubSeq(undo_stack, 1, Len(undo_stack) - 1)
         /\ bytes' = prev.bytes
         /\ cursor_pos' = prev.cursor_pos
         /\ offset' = prev.offset
         /\ pending_nibble' = prev.pending_nibble
         /\ modified' = (prev.bytes # original_bytes)
         /\ UNCHANGED << original_bytes, mode, search_state, pc >>
    ELSE /\ modified' = FALSE
         /\ UNCHANGED << bytes, original_bytes, undo_stack, offset, cursor_pos, mode,
                         pending_nibble, search_state, pc >>

\* Variant of undo that does not recompute modified
undo_KeepsModified ==
    IF undo_stack # << >>
    THEN LET prev == undo_stack[Len(undo_stack)] IN
         /\ undo_stack' = SubSeq(undo_stack, 1, Len(undo_stack) - 1)
         /\ bytes' = prev.bytes
         /\ cursor_pos' = prev.cursor_pos
         /\ offset' = prev.offset
         /\ pending_nibble' = prev.pending_nibble
         /\ UNCHANGED << original_bytes, mode, modified, search_state, pc >>
    ELSE UNCHANGED << bytes, original_bytes, undo_stack, offset, cursor_pos, mode,
                      modified, pending_nibble, search_state, pc >>

\* edit.rs undo
undo ==
    IF undo_stack # << >>
    THEN LET prev == undo_stack[Len(undo_stack)] IN
         /\ undo_stack' = SubSeq(undo_stack, 1, Len(undo_stack) - 1)
         /\ bytes' = prev.bytes
         /\ cursor_pos' = prev.cursor_pos
         /\ offset' = prev.offset
         /\ pending_nibble' = prev.pending_nibble
         /\ modified' = (prev.bytes # original_bytes)
         /\ UNCHANGED << original_bytes, mode, search_state, pc >>
    ELSE UNCHANGED << bytes, original_bytes, undo_stack, offset, cursor_pos, mode,
                      modified, pending_nibble, search_state, pc >>

\* push_undo without the pending nibble
push_undo_NoPending ==
    Append(undo_stack, [bytes |-> bytes,
                        cursor_pos |-> cursor_pos,
                        offset |-> offset,
                        pending_nibble |-> None])

\* edit.rs push_undo: the stack after the push
push_undo ==
    Append(undo_stack, [bytes |-> bytes,
                        cursor_pos |-> cursor_pos,
                        offset |-> offset,
                        pending_nibble |-> pending_nibble])

\* bytes[cursor_pos] = v, for cursor_pos < bytes.len()
SetByte(v) == [bytes EXCEPT ![cursor_pos + 1] = v]

\* Vec::remove(i), for i < v.len()
Remove(v, i) == SubSeq(v, 1, i) \o SubSeq(v, i + 2, Len(v))

\* edit.rs edit_byte, lines 40-49 and 66-75: after the byte at the cursor became
\* b1, advance the cursor, append a zero byte at the end, scroll one line
WriteAndAdvance(b1) ==
    LET cur == cursor_pos + 1
        grow == cur >= Len(b1)
    IN  /\ bytes' = (IF grow THEN Append(b1, 0) ELSE b1)
        /\ original_bytes' = (IF grow THEN Append(original_bytes, 0) ELSE original_bytes)
        /\ cursor_pos' = cur
        /\ offset' = (IF cur >= offset + (bytes_per_line * lines_per_page)
                      THEN offset + bytes_per_line
                      ELSE offset)
        /\ modified' = TRUE

\* an index into bytes out of bounds: the handler aborts after push_undo
PanicAfterPush ==
    /\ pc' = "panicked"
    /\ UNCHANGED << bytes, original_bytes, offset, cursor_pos, mode, modified,
                    pending_nibble, search_state >>

\* edit.rs edit_byte
edit_byte(c) ==
    /\ undo_stack' = push_undo
    /\ CASE mode = EditAscii ->
              IF is_ascii(c)
              THEN IF cursor_pos >= Len(bytes)
                   THEN PanicAfterPush
                   ELSE /\ WriteAndAdvance(SetByte(c))
                        /\ UNCHANGED << mode, pending_nibble, search_state, pc >>
              ELSE UNCHANGED << bytes, original_bytes, offset, cursor_pos, mode,
                                modified, pending_nibble, search_state, pc >>
         [] mode = EditHex ->
              IF to_digit16(c) # None
              THEN LET d == to_digit16(c)[1] IN
                   IF cursor_pos >= Len(bytes)
                   THEN PanicAfterPush
                   ELSE IF pending_nibble = None
                   THEN /\ bytes' = SetByte(SetHighNibble(bytes[cursor_pos + 1], d))
                        /\ pending_nibble' = Some(d)
                        /\ modified' = TRUE
                        /\ UNCHANGED << original_bytes, offset, cursor_pos, mode,
                                        search_state, pc >>
                   ELSE /\ WriteAndAdvance(SetByte(SetLowNibble(bytes[cursor_pos + 1], d)))
                        /\ pending_nibble' = None
                        /\ UNCHANGED << mode, search_state, pc >>
              ELSE UNCHANGED << bytes, original_bytes, offset, cursor_pos, mode,
                                modified, pending_nibble, search_state, pc >>
         [] mode = View ->
              UNCHANGED << bytes, original_bytes, offset, cursor_pos, mode,
                           modified, pending_nibble, search_state, pc >>

\* edit.rs backspace
backspace ==
    /\ undo_stack' = push_undo
    /\ IF cursor_pos < Len(bytes)
       THEN /\ bytes' = SetByte(0)
            /\ modified' = TRUE
            /\ cursor_pos' = (IF cursor_pos > 0 THEN cursor_pos - 1 ELSE cursor_pos)
       ELSE UNCHANGED << bytes, modified, cursor_pos >>
    /\ UNCHANGED << original_bytes, offset, mode, pending_nibble, search_state, pc >>

\* CanDelete without the test that more than one byte is left
CanDelete_LastByte == cursor_pos < Len(bytes)

\* edit.rs delete_prev_byte, line 99: the last remaining byte is never deleted
CanDelete == cursor_pos < Len(bytes) /\ Len(bytes) > 1

\* edit.rs delete_prev_byte
delete_prev_byte ==
    /\ undo_stack' = push_undo
    /\ IF CanDelete
       THEN IF cursor_pos >= Len(original_bytes)
            THEN \* original_bytes.remove(cursor_pos) panics, bytes already shortened
                 /\ bytes' = Remove(bytes, cursor_pos)
                 /\ pc' = "panicked"
                 /\ UNCHANGED << original_bytes, offset, cursor_pos, mode, modified,
                                 pending_nibble, search_state >>
            ELSE LET cur == IF cursor_pos > 0 THEN cursor_pos - 1 ELSE cursor_pos IN
                 /\ bytes' = Remove(bytes, cursor_pos)
                 /\ original_bytes' = Remove(original_bytes, cursor_pos)
                 /\ modified' = TRUE
                 /\ cursor_pos' = cur
                 /\ offset' = (IF cur < offset
                               THEN saturating_sub(offset, bytes_per_line)
                               ELSE offset)
                 /\ UNCHANGED << mode, pending_nibble, search_state, pc >>
       ELSE UNCHANGED << bytes, original_bytes, offset, cursor_pos, mode, modified,
                         pending_nibble, search_state, pc >>

-----------------------------------------------------------------------------
(* navigation.rs *)

NavFrame == UNCHANGED << original_bytes, undo_stack, mode, modified, pending_nibble,
                         search_state, pc >>

\* navigation.rs move_up
move_up ==
    /\ IF cursor_pos >= bytes_per_line
       THEN /\ cursor_pos' = cursor_pos - bytes_per_line
            /\ offset' = (IF cursor_pos - bytes_per_line < offset
                          THEN saturating_sub(offset, bytes_per_line)
                          ELSE offset)
       ELSE UNCHANGED << cursor_pos, offset >>
    /\ UNCHANGED bytes
    /\ NavFrame

\* navigation.rs move_down
move_down ==
    /\ IF cursor_pos + bytes_per_line < Len(bytes)
       THEN /\ cursor_pos' = cursor_pos + bytes_per_line
            /\ offset' = (IF cursor_pos + bytes_per_line
                               >= offset + (bytes_per_line * (lines_per_page - 1))
                          THEN offset + bytes_per_line
                          ELSE offset)
       ELSE UNCHANGED << cursor_pos, offset >>
    /\ UNCHANGED bytes
    /\ NavFrame

\* navigation.rs move_left
move_left ==
    /\ IF cursor_pos > 0
       THEN /\ cursor_pos' = cursor_pos - 1
            /\ offset' = (IF cursor_pos - 1 < offset
                          THEN saturating_sub(offset, bytes_per_line)
                          ELSE offset)
       ELSE UNCHANGED << cursor_pos, offset >>
    /\ UNCHANGED bytes
    /\ NavFrame

\* navigation.rs move_right; bytes.len() - 1 is computed on a buffer that is
\* never empty
move_right ==
    /\ IF cursor_pos < Len(bytes) - 1
       THEN /\ cursor_pos' = cursor_pos + 1
            /\ offset' = (IF cursor_pos + 1
                               >= offset + (bytes_per_line * (lines_per_page - 1))
                          THEN offset + bytes_per_line
                          ELSE offset)
            /\ UNCHANGED << bytes, original_bytes >>
       ELSE IF mode # View
       THEN /\ bytes' = Append(bytes, 0)
            /\ original_bytes' = Append(original_bytes, 0)
            /\ cursor_pos' = cursor_pos + 1
            /\ offset' = (IF cursor_pos + 1 >= offset + (bytes_per_line * lines_per_page)
                          THEN offset + bytes_per_line
                          ELSE offset)
       ELSE UNCHANGED << bytes, original_bytes, cursor_pos, offset >>
    /\ UNCHANGED << undo_stack, mode, modified, pending_nibble, search_state, pc >>

\* Variant of page_up that scrolls the window and leaves the cursor
page_up_KeepsCursor(factor) ==
    LET jump == bytes_per_line * lines_per_page * factor
        new_offset == saturating_sub(offset, jump)
    IN  /\ offset' = new_offset
        /\ UNCHANGED << bytes, cursor_pos >>
        /\ NavFrame

\* navigation.rs page_up
page_up(factor) ==
    LET jump == bytes_per_line * lines_per_page * factor
        new_offset == saturating_sub(offset, jump)
    IN  /\ offset' = new_offset
        /\ cursor_pos' = new_offset
        /\ UNCHANGED bytes
        /\ NavFrame

\* Variant of page_down that clamps to the last byte, not to its line start
page_down_ClampToLastByte(factor) ==
    LET jump == bytes_per_line * lines_per_page * factor
        new_offset == offset + jump
        max_offset == saturating_sub(Len(bytes), 1)
    IN  /\ offset' = Min(new_offset, max_offset)
        /\ cursor_pos' = Min(new_offset, max_offset)
        /\ UNCHANGED bytes
        /\ NavFrame

\* navigation.rs page_down
page_down(factor) ==
    LET jump == bytes_per_line * lines_per_page * factor
        new_offset == offset + jump
        max_offset == saturating_sub(Len(bytes), 1)
        max_line_start == (max_offset \div bytes_per_line) * bytes_per_line
    IN  /\ offset' = Min(new_offset, max_line_start)
        /\ cursor_pos' = Min(new_offset, max_line_start)
        /\ UNCHANGED bytes
        /\ NavFrame

\* Variant of scrollToCursor that scrolls down one line short
scroll_to_cursor_OneLineShort(cur, off) ==
    IF cur < off
    THEN cur - (cur % bytes_per_line)
    ELSE IF cur >= off + bytes_per_line * lines_per_page
    THEN saturating_sub(cur - (cur % bytes_per_line),
                        bytes_per_line * lines_per_page)
    ELSE off

\* scrollToCursor (spec 4.2): the offset that shows cursor cur, from offset off
scroll_to_cursor(cur, off) ==
    IF cur < off
    THEN cur - (cur % bytes_per_line)
    ELSE IF cur >= off + bytes_per_line * lines_per_page
    THEN saturating_sub(cur - (cur % bytes_per_line),
                        bytes_per_line * (lines_per_page - 1))
    ELSE off

\* moveHome (spec 4.2, 4.1): cursor to 0, scrollToCursor; a cursor move clears
\* the pending nibble
move_home ==
    /\ cursor_pos' = 0
    /\ offset' = scroll_to_cursor(0, offset)
    /\ pending_nibble' = None
    /\ UNCHANGED << bytes, original_bytes, undo_stack, mode, modified, search_state, pc >>

\* moveEnd (spec 4.2, 4.1): cursor to buffer.len() - 1, scrollToCursor; a cursor
\* move clears the pending nibble
move_end ==
    /\ cursor_pos' = Len(bytes) - 1
    /\ offset' = scroll_to_cursor(Len(bytes) - 1, offset)
    /\ pending_nibble' = None
    /\ UNCHANGED << bytes, original_bytes, undo_stack, mode, modified, search_state, pc >>

-----------------------------------------------------------------------------
(* editor.rs *)

\* Variant of the trim loop with `if` in place of `while`: one zero popped.
TrimTrailingZeros_Once(data) ==
    IF Len(data) > 1 /\ data[Len(data)] = 0
    THEN SubSeq(data, 1, Len(data) - 1)
    ELSE data

\* MicroHex::save, lines 256-259: trailing zero bytes popped, one byte kept
RECURSIVE TrimTrailingZeros(_)
TrimTrailingZeros(data) ==
    IF Len(data) > 1 /\ data[Len(data)] = 0
    THEN TrimTrailingZeros(SubSeq(data, 1, Len(data) - 1))
    ELSE data

\* Variant of save that trims self.bytes in place before the write is tried.
save_TrimsInPlace(write_ok) ==
    LET data == TrimTrailingZeros(bytes) IN
    IF write_ok
    THEN /\ disk' = data
         /\ original_bytes' = data
         /\ bytes' = data
         /\ modified' = FALSE
         /\ UNCHANGED << undo_stack, offset, cursor_pos, mode, pending_nibble,
                         search_state >>
    ELSE /\ bytes' = data
         /\ UNCHANGED << original_bytes, undo_stack, offset, cursor_pos, mode,
                         modified, pending_nibble, search_state, disk >>

\* MicroHex::save; write_ok is the outcome of fs::write.  On Err the `?` leaves
\* save, handle_key_event and run, and the process ends.
save(write_ok) ==
    LET data == TrimTrailingZeros(bytes) IN
    IF write_ok
    THEN /\ disk' = data
         /\ original_bytes' = data
         /\ bytes' = data
         /\ modified' = FALSE
         /\ UNCHANGED << undo_stack, offset, cursor_pos, mode, pending_nibble,
                         search_state >>
    ELSE /\ UNCHANGED prog

-----------------------------------------------------------------------------
(* History.  hist.cmd and hist.arg name the last command handled.           *)
(* hist.snap is Some(the buffer, cursor, offset and pending nibble before   *)
(* the last command) when that command was an edit that pushed an undo      *)
(* snapshot, and is kept over an Undo that directly follows it.             *)
(* hist.hex is << c, d1 >> after a first hex digit d1 was written at cursor *)
(* c with nothing pending, and << c, d1, d2 >> when the next command wrote  *)
(* the second digit d2.                                                     *)

Snapshot ==
    [bytes |-> bytes, cursor_pos |-> cursor_pos, offset |-> offset,
     pending_nibble |-> pending_nibble]

EditCmds == {"EditChar", "Backspace", "DeleteForward"}

HistSnap(cmd) ==
    IF cmd \in EditCmds /\ mode # View /\ pc' = "running" THEN Some(Snapshot)
    ELSE IF cmd = "Undo" /\ hist.cmd \in EditCmds THEN hist.snap
    ELSE None

HistHex(cmd, arg) ==
    IF cmd = "EditChar" /\ mode = EditHex /\ pc' = "running" /\ to_digit16(arg) # None
    THEN IF pending_nibble = None THEN << cursor_pos, to_digit16(arg)[1] >>
         ELSE IF Len(hist.hex) = 2 THEN hist.hex \o to_digit16(arg)
         ELSE << >>
    ELSE << >>

\* Commands whose consecutive repetitions are counted
RunCmds == {"NextMatch", "PrevMatch", "Undo"}

\* << start, count >> after count consecutive repetitions of cmd; start is the
\* match index (NextMatch, PrevMatch) or the depth of the undo log (Undo) before
\* the first of them
HistRun(cmd) ==
    IF cmd \in RunCmds
    THEN IF hist.cmd = cmd
         THEN << hist.run[1], hist.run[2] + 1 >>
         ELSE << IF cmd = "Undo" THEN Len(undo_stack)
                 ELSE search_state[1].current_index,
                 1 >>
    ELSE << >>

\* The command is an edit the editor carries out: a hex digit in EditHex, an
\* ASCII character in EditAscii, a backspace, or a delete that removes a byte
EffectiveEdit(cmd, arg) ==
    /\ mode # View
    /\ pc' = "running"
    /\ \/ cmd = "EditChar" /\ mode = EditHex /\ to_digit16(arg) # None
       \/ cmd = "EditChar" /\ mode = EditAscii /\ is_ascii(arg)
       \/ cmd = "Backspace" /\ cursor_pos < Len(bytes)
       \/ cmd = "DeleteForward" /\ CanDelete

\* Commands that may come between the edits of an undo scenario
BetweenEdits ==
    {"CycleMode", "MoveUp", "MoveDown", "MoveLeft", "MoveRight", "PageUp", "PageDown",
     "Home", "End"}

\* pre: the states just before the effective edits made and not yet undone,
\* oldest first, since the last command that was neither such an edit, nor a
\* move or mode change, nor an undo of one of them; top: on an undo of one of
\* them, the state just before the most recent.
HistLifo(cmd, arg) ==
    IF cmd \in EditCmds /\ EffectiveEdit(cmd, arg)
    THEN [pre |-> Append(hist.lifo.pre, Snapshot), top |-> None]
    ELSE IF cmd \in BetweenEdits
    THEN [pre |-> hist.lifo.pre, top |-> None]
    ELSE IF cmd = "Undo" /\ hist.lifo.pre # << >>
    THEN [pre |-> SubSeq(hist.lifo.pre, 1, Len(hist.lifo.pre) - 1),
          top |-> Some(hist.lifo.pre[Len(hist.lifo.pre)])]
    ELSE [pre |-> << >>, top |-> None]

Observe(cmd, arg) ==
    /\ steps < MaxSteps
    /\ steps' = steps + 1
    /\ hist' = [cmd |-> cmd, arg |-> arg, snap |-> HistSnap(cmd),
                hex |-> HistHex(cmd, arg), run |-> HistRun(cmd),
                lifo |-> HistLifo(cmd, arg)]

-----------------------------------------------------------------------------
(* editor.rs handle_key_event: one action per command of the input adapter *)

\* Search strings typed at the prompt: "A", "00", "zz", "0x"
SearchInputs == { << 65 >>, << 48, 48 >>, << 122, 122 >>, << 48, 120 >> }

\* Speed of PageUp/PageDown: 10 with Shift, else 1
PageSpeeds == {1, 10}

\* InEditMode without the test of the mode
InEditMode_Always == TRUE

\* editor.rs 147, 150, 153: !matches!(self.mode, EditMode::View)
InEditMode == mode # View

\* Tab, Ctrl+E
CycleMode ==
    /\ Running
    /\ cycle_mode
    /\ UNCHANGED disk
    /\ Observe("CycleMode", 0)

\* Ctrl+Z
Undo ==
    /\ Running
    /\ undo
    /\ UNCHANGED disk
    /\ Observe("Undo", 0)

MoveUp ==
    /\ Running
    /\ move_up
    /\ UNCHANGED disk
    /\ Observe("MoveUp", 0)

MoveDown ==
    /\ Running
    /\ move_down
    /\ UNCHANGED disk
    /\ Observe("MoveDown", 0)

MoveLeft ==
    /\ Running
    /\ move_left
    /\ UNCHANGED disk
    /\ Observe("MoveLeft", 0)

MoveRight ==
    /\ Running
    /\ move_right
    /\ UNCHANGED disk
    /\ Observe("MoveRight", 0)

PageUp ==
    /\ Running
    /\ \E speed \in PageSpeeds : page_up(speed) /\ Observe("PageUp", speed)
    /\ UNCHANGED disk

PageDown ==
    /\ Running
    /\ \E speed \in PageSpeeds : page_down(speed) /\ Observe("PageDown", speed)
    /\ UNCHANGED disk

Home ==
    /\ Running
    /\ move_home
    /\ UNCHANGED disk
    /\ Observe("Home", 0)

End ==
    /\ Running
    /\ move_end
    /\ UNCHANGED disk
    /\ Observe("End", 0)

\* KeyCode::Char(c), editor.rs 147-149.  In View mode the characters of
\* EditChars match no later arm and the key is ignored.
EditChar ==
    /\ Running
    /\ \E c \in EditChars :
          /\ IF InEditMode
             THEN edit_byte(c)
             ELSE UNCHANGED << bytes, original_bytes, undo_stack, offset, cursor_pos,
                               mode, modified, pending_nibble, search_state, pc >>
          /\ Observe("EditChar", c)
    /\ UNCHANGED disk

\* KeyCode::Delete, editor.rs 150-152; ignored in View mode
DeleteForward ==
    /\ Running
    /\ IF InEditMode
       THEN delete_prev_byte
       ELSE UNCHANGED << bytes, original_bytes, undo_stack, offset, cursor_pos,
                         mode, modified, pending_nibble, search_state, pc >>
    /\ UNCHANGED disk
    /\ Observe("DeleteForward", 0)

\* KeyCode::Backspace, editor.rs 153-155; ignored in View mode
Backspace ==
    /\ Running
    /\ IF InEditMode
       THEN backspace
       ELSE UNCHANGED << bytes, original_bytes, undo_stack, offset, cursor_pos,
                         mode, modified, pending_nibble, search_state, pc >>
    /\ UNCHANGED disk
    /\ Observe("Backspace", 0)

\* KeyCode::Char('/'), editor.rs 158-185, with a non-empty answer to the prompt.
\* The arm is reached in View mode only: in the edit modes '/' is an EditChar.
StartSearch ==
    /\ Running
    /\ mode = View
    /\ \E pattern_str \in SearchInputs :
          /\ IF parse_pattern(pattern_str) # None
             THEN LET found == SearchState_new(bytes, parse_pattern(pattern_str)[1]) IN
                  /\ search_state' = found
                  /\ IF found # None
                     THEN /\ cursor_pos' = current_position(found[1])
                          /\ offset' = scroll_to_cursor(current_position(found[1]), offset)
                     ELSE UNCHANGED << cursor_pos, offset >>
             ELSE UNCHANGED << search_state, cursor_pos, offset >>
          /\ Observe("StartSearch", pattern_str)
    /\ UNCHANGED << bytes, original_bytes, undo_stack, mode, modified, pending_nibble,
                    disk, pc >>

\* KeyCode::Esc, editor.rs 188-190
CancelSearch ==
    /\ Running
    /\ search_state # None
    /\ search_state' = None
    /\ UNCHANGED << bytes, original_bytes, undo_stack, offset, cursor_pos, mode,
                    modified, pending_nibble, disk, pc >>
    /\ Observe("CancelSearch", 0)

\* KeyCode::Char('n'), editor.rs 193-200; reached in View mode only
NextMatch ==
    /\ Running
    /\ mode = View
    /\ search_state # None
    /\ LET state == next_match(search_state[1]) IN
       /\ search_state' = Some(state)
       /\ cursor_pos' = current_position(state)
       /\ offset' = scroll_to_cursor(current_position(state), offset)
    /\ UNCHANGED << bytes, original_bytes, undo_stack, mode, modified, pending_nibble,
                    disk, pc >>
    /\ Observe("NextMatch", 0)

\* KeyCode::Char('N'), editor.rs 203-210; reached in View mode only
PrevMatch ==
    /\ Running
    /\ mode = View
    /\ search_state # None
    /\ LET state == prev_match(search_state[1]) IN
       /\ search_state' = Some(state)
       /\ cursor_pos' = current_position(state)
       /\ offset' = scroll_to_cursor(current_position(state), offset)
    /\ UNCHANGED << bytes, original_bytes, undo_stack, mode, modified, pending_nibble,
                    disk, pc >>
    /\ Observe("PrevMatch", 0)

\* Ctrl+S while modified, answered "y", editor.rs 110-116
SaveRequest ==
    /\ Running
    /\ modified
    /\ \E write_ok \in BOOLEAN :
          /\ save(write_ok)
          /\ pc' = (IF write_ok THEN "running" ELSE "io_error")
          /\ Observe("SaveRequest", IF write_ok THEN 1 ELSE 0)

\* Alt+Q, editor.rs 97-109; answer is the reply to "Save before exit? (y/n/c)"
QuitRequest ==
    /\ Running
    /\ IF modified
       THEN \E answer \in {"y", "n", "c"} :
                /\ Observe("QuitRequest", answer)
                /\ CASE answer = "y" ->
                          \E write_ok \in BOOLEAN :
                              /\ save(write_ok)
                              /\ pc' = (IF write_ok THEN "exited" ELSE "io_error")
                     [] answer = "n" -> pc' = "exited" /\ UNCHANGED prog
                     [] answer = "c" -> UNCHANGED << prog, pc >>
       ELSE /\ pc' = "exited"
            /\ UNCHANGED prog
            /\ Observe("QuitRequest", "")

-----------------------------------------------------------------------------
(* main.rs and MicroHex::new *)

ZeroLine == [i \in 1..bytes_per_line |-> 0]

\* Contents of the file opened: files shorter than one line
Files == { << >>, << 65, 0, 0 >> }

\* Contents of the file opened: a file longer than one line
PagedFiles == { ZeroLine \o << 65 >> }

\* main.rs 32-34: an empty file is edited as one zero byte
Loaded(file) == IF file = << >> THEN << 0 >> ELSE file

\* MicroHex::new on the bytes main read
InitWith(files) ==
    \E file \in files :
        /\ disk = file
        /\ bytes = Loaded(file)
        /\ original_bytes = Loaded(file)
        /\ undo_stack = << >>
        /\ offset = 0
        /\ cursor_pos = 0
        /\ mode = View
        /\ modified = FALSE
        /\ pending_nibble = None
        /\ search_state = None
        /\ pc = "running"
        /\ hist = [cmd |-> "Load", arg |-> 0, snap |-> None, hex |-> << >>,
                   run |-> << >>, lifo |-> [pre |-> << >>, top |-> None]]
        /\ steps = 0

Init == InitWith(Files)

InitPaged == InitWith(PagedFiles)

Next ==
    \/ CycleMode
    \/ Undo
    \/ MoveUp
    \/ MoveDown
    \/ MoveLeft
    \/ MoveRight
    \/ PageUp
    \/ PageDown
    \/ Home
    \/ End
    \/ EditChar
    \/ DeleteForward
    \/ Backspace
    \/ StartSearch
    \/ CancelSearch
    \/ NextMatch
    \/ PrevMatch
    \/ SaveRequest
    \/ QuitRequest

Spec == Init /\ [][Next]_vars

\* The same editor on a file that needs scrolling
SpecPaged == InitPaged /\ [][Next]_vars

-----------------------------------------------------------------------------
(* search.rs as pure functions: the inputs are drawn from bounded sets and the
   function's result is recorded in hist.out *)

MaxData == 4
MaxPat == 3

\* Byte values of the data and patterns searched
SearchBytes == { 0, 1 }

\* The sequences over S of length lo..hi
BoundedSeqs(S, lo, hi) == UNION { [1..k -> S] : k \in lo..hi }

\* The editor opened on any non-empty file of at most MaxData bytes
InitSearch == InitWith(BoundedSeqs(SearchBytes, 1, MaxData))

\* search_all_bytes(&self.bytes, &pattern) for any pattern of at most MaxPat bytes
ApplySearch ==
    /\ Running
    /\ \E pattern \in BoundedSeqs(SearchBytes, 0, MaxPat) :
          hist' = [cmd |-> "search_all_bytes", arg |-> pattern,
                   out |-> search_all_bytes(bytes, pattern)]
    /\ UNCHANGED << prog, disk, pc, steps >>

SpecSearch == InitSearch /\ [][ApplySearch]_vars

MaxBody == 3

\* Characters typed after the prefix: '4', 'f', 'F', 'g' and the space
ParseChars == { 52, 102, 70, 103, 32 }

\* How the typed string starts: nothing, "0x", "0X", "text:", " 0x", " "
ParsePrefixes ==
    { << >>, << 48, 120 >>, << 48, 88 >>, << 116, 101, 120, 116, 58 >>,
      << 32, 48, 120 >>, << 32 >> }

\* The strings answered to the search prompt
ParseInputs ==
    { p \o b : p \in ParsePrefixes, b \in BoundedSeqs(ParseChars, 0, MaxBody) }

\* search::parse_pattern(&pattern_str) for any of the strings, once per run
ApplyParse ==
    /\ Running
    /\ steps = 0
    /\ steps' = steps + 1
    /\ \E input \in ParseInputs :
          hist' = [cmd |-> "parse_pattern", arg |-> input,
                   out |-> parse_pattern(input)]
    /\ UNCHANGED << prog, disk, pc >>

SpecParse == Init /\ [][ApplyParse]_vars

-----------------------------------------------------------------------------
(* The search session: the editor in View mode on files of zero bytes, where
   the pattern "00" has one match per byte *)

MaxMatches == 4

ZeroFiles == { [i \in 1..k |-> 0] : k \in 1..MaxMatches }

InitSession == InitWith(ZeroFiles)

NextSession ==
    \/ StartSearch
    \/ CancelSearch
    \/ NextMatch
    \/ PrevMatch

SpecSession == InitSession /\ [][NextSession]_vars

-----------------------------------------------------------------------------
(* Load and save with nothing in between: main.rs reads the file, MicroHex::new
   takes the bytes, MicroHex::save writes them.  hist.arg keeps the file as it
   was read and hist.out the outcome of the write. *)

MaxFile == 5

\* Byte values of the files opened
FileBytes == { 0, 65 }

\* Every file of at most MaxFile bytes, the empty file included
RoundTripFiles == BoundedSeqs(FileBytes, 0, MaxFile)

InitRoundTrip == InitWith(RoundTripFiles)

\* MicroHex::save on the editor as constructed
SaveUnedited ==
    /\ Running
    /\ steps = 0
    /\ steps' = steps + 1
    /\ \E write_ok \in BOOLEAN :
          /\ save(write_ok)
          /\ pc' = (IF write_ok THEN "running" ELSE "io_error")
          /\ hist' = [cmd |-> "save", arg |-> disk, out |-> write_ok]

SpecRoundTrip == InitRoundTrip /\ [][SaveUnedited]_vars

-----------------------------------------------------------------------------
(* scrollToCursor as a pure function of the cursor and the offset.  hist.arg is
   << cursor, offset >>, hist.out the offset after one and after two calls. *)

MaxLines == 5

\* Files of 1..MaxLines full lines
ScrollFiles == { [i \in 1..(bytes_per_line * k) |-> 0] : k \in 1..MaxLines }

InitScroll == InitWith(ScrollFiles)

\* scroll_to_cursor for any cursor inside the buffer and any offset
ApplyScroll ==
    /\ Running
    /\ steps = 0
    /\ steps' = steps + 1
    /\ \E cur \in 0..(Len(bytes) - 1), off \in 0..(Len(bytes) - 1) :
          LET once == scroll_to_cursor(cur, off) IN
          hist' = [cmd |-> "scroll_to_cursor", arg |-> << cur, off >>,
                   out |-> << once, scroll_to_cursor(cur, once) >>]
    /\ UNCHANGED << prog, disk, pc >>

SpecScroll == InitScroll /\ [][ApplyScroll]_vars

-----------------------------------------------------------------------------
(* Navigation in View mode on files of several lines: the arrow keys and the
   page keys of navigation.rs only *)

InitNav == InitWith(ScrollFiles \cup PagedFiles)

NextNav ==
    \/ MoveUp
    \/ MoveDown
    \/ MoveLeft
    \/ MoveRight
    \/ PageUp
    \/ PageDown

SpecNav == InitNav /\ [][NextNav]_vars

-----------------------------------------------------------------------------
(* Properties *)

MoveCmds == {"MoveUp", "MoveDown", "MoveLeft", "MoveRight", "PageUp", "PageDown",
             "Home", "End"}

Completed == pc # "panicked"

InWindow == offset <= cursor_pos /\ cursor_pos < offset + bytes_per_line * lines_per_page

\* C1: two hex digits d1, d2 typed one after the other in EditHex mode, starting
\* with no pending nibble at a cursor c inside the buffer, leave
\* bytes[c] = d1 * 16 + d2, the cursor at c + 1 and no pending nibble.
C1_HexPairWritesByte ==
    Len(hist.hex) = 3 =>
        /\ hist.hex[1] < Len(bytes)
        /\ bytes[hist.hex[1] + 1] = hist.hex[2] * 16 + hist.hex[3]
        /\ cursor_pos = hist.hex[1] + 1
        /\ pending_nibble = None

\* two different digits were written over the byte 0x41
C1_Witness ==
    /\ Len(hist.hex) = 3
    /\ hist.hex[2] # hist.hex[3]
    /\ undo_stack[Len(undo_stack) - 1].bytes[hist.hex[1] + 1] = 65

\* C2: an edit (hex digit, ASCII character, backspace or delete) followed at
\* once by undo leaves bytes, cursor_pos, offset and pending_nibble as they were
\* before the edit.
C2_UndoRestores ==
    (hist.cmd = "Undo" /\ hist.snap # None) => Snapshot = hist.snap[1]

\* undo brought back a pending nibble and a byte that the edit had changed
C2_Witness ==
    /\ hist.cmd = "Undo"
    /\ hist.snap # None
    /\ pending_nibble # None
    /\ steps >= 4

\* C3: after every completed command the cursor is inside the buffer.
C3_CursorInBuffer ==
    Completed => (0 <= cursor_pos /\ cursor_pos < Len(bytes))

\* C4: no command sequence makes an operation abort on an index out of bounds.
C4_NoPanic == pc # "panicked"

\* C5: after a navigation or edit command the cursor is in the visible window.
C5_CursorInWindow ==
    (Completed /\ hist.cmd \in MoveCmds \cup EditCmds \cup {"Undo"}) => InWindow

\* C6: the buffer is never empty.
C6_NeverEmpty == Len(bytes) >= 1

\* delete was asked for again with one byte left, after two of three bytes were
\* deleted
C6_Witness ==
    /\ hist.cmd = "DeleteForward"
    /\ mode # View
    /\ Len(bytes) = 1
    /\ Len(undo_stack) >= 3
    /\ Len(undo_stack[1].bytes) = 3
    /\ undo_stack[Len(undo_stack)].bytes = bytes

\* C7: every cursor move leaves no pending nibble.
C7_MoveClearsPending ==
    (Completed /\ hist.cmd \in MoveCmds) => pending_nibble = None

\* The rotation of the modes as C8 states it
C8_Rotation(m) ==
    IF m = View THEN EditHex ELSE IF m = EditHex THEN EditAscii ELSE View

\* C8: cycle_mode rotates View -> EditHex -> EditAscii -> View, clears the
\* pending nibble and leaves bytes, original_bytes, cursor_pos, offset, modified
\* and the undo log unchanged.
C8_CycleModeFrame ==
    [][hist'.cmd = "CycleMode" =>
          /\ mode' = C8_Rotation(mode)
          /\ C8_Rotation(C8_Rotation(mode')) = mode
          /\ pending_nibble' = None
          /\ UNCHANGED << bytes, original_bytes, cursor_pos, offset, modified,
                          undo_stack >>]_vars

\* the mode was cycled out of EditHex after a first hex digit was typed
C8_Witness ==
    /\ hist.cmd = "CycleMode"
    /\ mode = EditAscii
    /\ pending_nibble = None
    /\ modified
    /\ Len(undo_stack) = 1
    /\ undo_stack[1].bytes # bytes
    /\ Len(undo_stack[1].bytes) = Len(bytes)
    /\ cursor_pos = undo_stack[1].cursor_pos
    /\ bytes[cursor_pos + 1] # 0

\* C9: in View mode EditChar, DeleteForward, Backspace and every move or page
\* command leave bytes and original_bytes unchanged.
C9_ViewIsReadOnly ==
    [][(mode = View /\ hist'.cmd \in MoveCmds \cup EditCmds) =>
          UNCHANGED << bytes, original_bytes >>]_vars

\* MoveRight was handled in View mode with the cursor on the last byte
C9_Witness ==
    /\ hist.cmd = "MoveRight"
    /\ mode = View
    /\ cursor_pos = Len(bytes) - 1
    /\ Len(bytes) = 1

\* C10: StartSearch with a valid pattern that does not occur leaves cursor_pos,
\* offset, the buffer and the active search session unchanged.
C10_NotFoundChangesNothing ==
    [][(hist'.cmd = "StartSearch"
          /\ parse_pattern(hist'.arg) # None
          /\ search_all_bytes(bytes, parse_pattern(hist'.arg)[1]) = << >>) =>
          UNCHANGED << cursor_pos, offset, bytes, search_state >>]_vars

\* The last step wrote the file: Ctrl+S, or quit answered with y.
SaveSucceeded ==
    \/ hist.cmd = "SaveRequest" /\ hist.arg = 1
    \/ hist.cmd = "QuitRequest" /\ hist.arg = "y" /\ pc = "exited"

\* w is data with every trailing zero byte removed, but never fewer than one
\* byte: a prefix of data, followed in data by zeros only, and ending in a
\* non-zero byte unless it is a single byte.
IsTrimOf(w, data) ==
    /\ Len(w) >= 1
    /\ Len(w) <= Len(data)
    /\ \A i \in 1..Len(w) : w[i] = data[i]
    /\ \A i \in (Len(w) + 1)..Len(data) : data[i] = 0
    /\ Len(w) = 1 \/ w[Len(w)] # 0

\* C11: a successful save writes the buffer with all trailing zero bytes
\* removed but at least one byte kept; afterwards original_bytes is the written
\* data, bytes equals original_bytes and modified is false.
C11_SaveWritesTrimmed ==
    [][SaveSucceeded' =>
          /\ IsTrimOf(disk', bytes)
          /\ original_bytes' = disk'
          /\ bytes' = original_bytes'
          /\ modified' = FALSE]_vars

\* Two trailing zeros of the loaded file were removed by a save.
C11_Witness ==
    /\ SaveSucceeded
    /\ disk = << 65 >>
    /\ bytes = disk

\* C12: when the write fails, bytes, original_bytes, cursor_pos, offset, the
\* undo log and modified are all unchanged.
C12_FailedSaveChangesNothing ==
    [][pc' = "io_error" =>
          UNCHANGED << bytes, original_bytes, cursor_pos, offset, undo_stack,
                       modified >>]_vars

\* A failed save of a buffer that a successful save would have shortened.
C12_Witness ==
    /\ pc = "io_error"
    /\ hist.cmd = "SaveRequest"
    /\ modified
    /\ Len(bytes) > 1
    /\ bytes[Len(bytes)] = 0

\* data[i .. i + len(pattern)] = pattern, for a 0-based i
WindowEquals(data, pattern, i) ==
    /\ i + Len(pattern) <= Len(data)
    /\ \A k \in 1..Len(pattern) : data[i + k] = pattern[k]

\* C13: search_all_bytes(data, pattern) lists, strictly ascending and so without
\* duplicates, exactly the offsets i with i + len(pattern) <= len(data) and
\* data[i .. i + len(pattern)] = pattern, overlapping occurrences included; the
\* list is empty when the pattern is empty or longer than the data.
C13_SearchFindsAllWindows ==
    hist.cmd = "search_all_bytes" =>
        LET data == bytes
            pattern == hist.arg
            found == hist.out
        IN  /\ \A k \in 1..(Len(found) - 1) : found[k] < found[k + 1]
            /\ \A k \in 1..Len(found) : found[k] \in 0..Len(data)
            /\ pattern # << >> =>
                  \A i \in 0..Len(data) :
                      (\E k \in 1..Len(found) : found[k] = i)
                          <=> WindowEquals(data, pattern, i)
            /\ (pattern = << >> \/ Len(pattern) > Len(data)) => found = << >>

\* Two overlapping occurrences of a two-byte pattern were both listed.
C13_Witness ==
    /\ hist.cmd = "search_all_bytes"
    /\ Len(hist.arg) = 2
    /\ bytes = << 1, 1, 1 >>
    /\ hist.out = << 0, 1 >>

\* C14: in a search session with N >= 1 matches current_index stays in 0..N-1;
\* next_match steps it forward and wraps from N-1 to 0, prev_match steps it back
\* and wraps from 0 to N-1, so N consecutive calls of either return it to where
\* it started.
C14_SessionIndexCycles ==
    search_state # None =>
        LET N == Len(search_state[1].matches)
            idx == search_state[1].current_index
        IN  /\ N >= 1
            /\ idx \in 0..(N - 1)
            /\ hist.cmd = "NextMatch" =>
                  LET start == hist.run[1]
                      count == hist.run[2]
                  IN  /\ idx = (start + count) % N
                      /\ (count = 1 /\ start = N - 1) => idx = 0
                      /\ count = N => idx = start
            /\ hist.cmd = "PrevMatch" =>
                  LET start == hist.run[1]
                      count == hist.run[2]
                  IN  /\ idx = (start + count * (N - 1)) % N
                      /\ (count = 1 /\ start = 0) => idx = N - 1
                      /\ count = N => idx = start

\* Three next_match calls on three matches, starting from the last match, went
\* through the wrap to 0 and came back to the last match.
C14_Witness ==
    /\ search_state # None
    /\ Len(search_state[1].matches) = 3
    /\ hist.cmd = "NextMatch"
    /\ hist.run = << 2, 3 >>
    /\ search_state[1].current_index = 2

\* C15: in every reachable state offset is a multiple of bytes_per_line.
C15_OffsetLineAligned == offset % bytes_per_line = 0

\* The window was paged down to the second line, an edit or delete was made at
\* its first byte, and an undo restored the window on the second line.
C15_Witness ==
    /\ hist.cmd = "Undo"
    /\ hist.snap # None
    /\ hist.snap[1].offset = bytes_per_line
    /\ hist.snap[1].cursor_pos = bytes_per_line
    /\ offset = bytes_per_line
    /\ cursor_pos = bytes_per_line

\* The step is an edit the editor rejects: a character that is no hex digit in
\* EditHex, a character outside ASCII in EditAscii, or a delete on a buffer of
\* one byte.
RejectedEdit ==
    \/ /\ hist'.cmd = "EditChar"
       /\ \/ mode = EditHex /\ to_digit16(hist'.arg) = None
          \/ mode = EditAscii /\ ~is_ascii(hist'.arg)
    \/ /\ hist'.cmd = "DeleteForward"
       /\ mode # View
       /\ Len(bytes) = 1

\* C16: a rejected edit leaves bytes, original_bytes, cursor_pos, offset,
\* pending_nibble, modified and the undo log (depth and contents) unchanged.
C16_RejectedEditIsNoOp ==
    [][RejectedEdit =>
          UNCHANGED << bytes, original_bytes, cursor_pos, offset, pending_nibble,
                       modified, undo_stack >>]_vars

\* The step appended a byte to the buffer: a write at the last byte, or
\* move_right from the last byte in an edit mode.
AppendedByte ==
    /\ hist'.cmd \in {"EditChar", "MoveRight"}
    /\ pc' = "running"
    /\ Len(bytes') = Len(bytes) + 1

\* C17: right after an operation appended a zero byte at index i, the byte is
\* not reported as changed: original_bytes has an entry at i, and
\* original_bytes[i] = bytes[i] = 0.
C17_AppendedByteNotChanged ==
    [][AppendedByte =>
          LET i == Len(bytes') - 1 IN
          /\ bytes'[i + 1] = 0
          /\ i < Len(original_bytes')
          /\ original_bytes'[i + 1] = 0]_vars

\* C18: undo on an empty undo log changes nothing: bytes, original_bytes,
\* cursor_pos, offset, pending_nibble, mode and modified stay as they are and
\* the log stays empty, so the same holds however often it is repeated.
C18_UndoOnEmptyLogIsNoOp ==
    [][(hist'.cmd = "Undo" /\ undo_stack = << >>) =>
          /\ UNCHANGED << bytes, original_bytes, cursor_pos, offset, pending_nibble,
                          mode, modified >>
          /\ undo_stack' = << >>]_vars

\* Three undos in a row on a log of one snapshot, the last two on the empty
\* log, in a state where the buffer is modified.
C18_Witness ==
    /\ hist.cmd = "Undo"
    /\ hist.run = << 1, 3 >>
    /\ undo_stack = << >>
    /\ modified

\* The sequences a and b differ in length or at some position.
Differ(a, b) ==
    \/ Len(a) # Len(b)
    \/ \E i \in 1..Len(a) : a[i] # b[i]

\* C19: undo with a non-empty log leaves original_bytes, mode and the search
\* session unchanged, and afterwards modified is true exactly when the restored
\* bytes differ from original_bytes.
C19_UndoRecomputesModified ==
    [][(hist'.cmd = "Undo" /\ undo_stack # << >>) =>
          /\ UNCHANGED << original_bytes, mode, search_state >>
          /\ bytes' = undo_stack[Len(undo_stack)].bytes
          /\ modified' = Differ(bytes', original_bytes')]_vars

\* With a search session active, an edit was undone and the buffer is again
\* equal to original_bytes and not modified.
C19_Witness ==
    /\ hist.cmd = "Undo"
    /\ hist.run[1] >= 1
    /\ hist.run[2] = 1
    /\ hist.snap # None
    /\ search_state # None
    /\ mode # View
    /\ ~modified

Blank == { 9, 10, 11, 12, 13, 32 }

\* The characters 0-9a-f and 0-9A-F, each at the position of its value plus one
LowerDigits == << 48, 49, 50, 51, 52, 53, 54, 55, 56, 57, 97, 98, 99, 100, 101, 102 >>
UpperDigits == << 48, 49, 50, 51, 52, 53, 54, 55, 56, 57, 65, 66, 67, 68, 69, 70 >>

IsDigit16(c) == \E v \in 1..16 : LowerDigits[v] = c \/ UpperDigits[v] = c

Digit16(c) == (CHOOSE v \in 1..16 : LowerDigits[v] = c \/ UpperDigits[v] = c) - 1

\* s from its first to its last non-blank character
WithoutOuterBlanks(s) ==
    LET solid == { i \in 1..Len(s) : s[i] \notin Blank } IN
    IF solid = {} THEN << >>
    ELSE SubSeq(s, CHOOSE i \in solid : \A j \in solid : i <= j,
                   CHOOSE i \in solid : \A j \in solid : i >= j)

WithoutBlanks(s) == SelectSeq(s, LAMBDA c : c \notin Blank)

\* The bytes of a string of hex digits of even length, two digits per byte
BytePairs(s) == [k \in 1..(Len(s) \div 2) |-> 16 * Digit16(s[2 * k - 1]) + Digit16(s[2 * k])]

BeginsWith(s, p) == Len(s) >= Len(p) /\ \A i \in 1..Len(p) : s[i] = p[i]

After(s, n) == [i \in 1..(Len(s) - n) |-> s[i + n]]

\* The rules of the claim in their order; bare is the result for a 0x/0X
\* prefix with nothing after it.
ParseRules(input, bare) ==
    LET t == WithoutOuterBlanks(input)
        digits == WithoutBlanks(After(t, 2))
        padded == IF Len(digits) % 2 = 1 THEN << 48 >> \o digits ELSE digits
    IN  IF t = << >> THEN None
        ELSE IF BeginsWith(t, << 48, 120 >>) \/ BeginsWith(t, << 48, 88 >>)
        THEN IF Len(t) = 2 THEN bare
             ELSE IF \E i \in 1..Len(digits) : ~IsDigit16(digits[i]) THEN None
             ELSE Some(BytePairs(padded))
        ELSE IF BeginsWith(t, << 116, 101, 120, 116, 58 >>)
        THEN Some(After(t, 5))
        ELSE IF Len(t) % 2 = 0 /\ \A i \in 1..Len(t) : IsDigit16(t[i])
        THEN Some(BytePairs(t))
        ELSE Some(t)

\* C20 as stated: empty after trim is invalid; a 0x/0X prefix forces hex
\* decoding of what follows (blanks removed, odd length padded with a leading
\* 0, invalid only on a non-hex digit), so a bare prefix decodes to no bytes;
\* text: yields the rest verbatim; otherwise hex pairs exactly when all hex
\* digits and even length, else the raw bytes.
C20_ParsePatternAsStated ==
    hist.cmd = "parse_pattern" => hist.out = ParseRules(hist.arg, Some(<< >>))

\* C20, amended: the same rules, and a 0x/0X prefix with nothing after it is
\* invalid.
C20_ParsePatternRules ==
    hist.cmd = "parse_pattern" => hist.out = ParseRules(hist.arg, None)

\* " 0x" was typed: after the trim, a hex prefix with nothing after it, invalid.
C20_Witness ==
    /\ hist.cmd = "parse_pattern"
    /\ hist.arg = << 32, 48, 120 >>
    /\ hist.out = None

\* w is file with its trailing zero bytes beyond the first byte removed; the
\* empty file stays empty.
IsFileTrimmed(w, file) ==
    /\ Len(w) <= Len(file)
    /\ Len(file) >= 1 => Len(w) >= 1
    /\ \A i \in 1..Len(w) : w[i] = file[i]
    /\ \A i \in (Len(w) + 1)..Len(file) : file[i] = 0
    /\ Len(w) <= 1 \/ w[Len(w)] # 0

\* C21: load, no edits, save: the bytes written are the bytes of the original
\* file with trailing zero bytes beyond the first trimmed, for every original
\* content, the empty file included.
C21_RoundTrip ==
    (hist.cmd = "save" /\ hist.out) => IsFileTrimmed(disk, hist.arg)

\* C22: scroll_to_cursor is idempotent, and for every cursor inside the buffer
\* and every offset it leaves offset <= cursor < offset + bytes_per_line *
\* lines_per_page.
C22_ScrollToCursor ==
    hist.cmd = "scroll_to_cursor" =>
        LET cur == hist.arg[1]
            once == hist.out[1]
            twice == hist.out[2]
        IN  /\ twice = once
            /\ once <= cur
            /\ cur < once + bytes_per_line * lines_per_page

\* A cursor two lines below a window at the top: the window moved down to put
\* the cursor's line last.
C22_Witness ==
    /\ hist.cmd = "scroll_to_cursor"
    /\ hist.arg[2] = 0
    /\ hist.arg[1] >= bytes_per_line * (lines_per_page + 1)
    /\ hist.out[1] > 0
    /\ hist.out[1] + bytes_per_line * (lines_per_page - 1) <= hist.arg[1]

\* C23: the undo log is LIFO across interleaved navigation: with only moves
\* and mode changes between them, each undo after effective edits restores
\* bytes, cursor_pos, offset and pending_nibble to the state just before the
\* most recent edit not yet undone, so n undos after n edits restore the state
\* just before the first.
C23_UndoIsLifo ==
    (hist.cmd = "Undo" /\ hist.lifo.top # None) => Snapshot = hist.lifo.top[1]

\* After two edits and then a move or mode change, the first undo restored the
\* state before the second edit; the first edit is still to be undone.
C23_Witness ==
    /\ hist.cmd = "Undo"
    /\ hist.run[2] = 1
    /\ hist.snap = None
    /\ hist.lifo.top # None
    /\ Len(hist.lifo.pre) = 1
    /\ hist.lifo.pre[1] # hist.lifo.top[1]

\* bytes_per_line * lines_per_page: the bytes one window shows
WindowBytes == bytes_per_line * lines_per_page

\* The start of the line that holds the last byte of the buffer
LastLineStart == (Len(bytes) - 1) - ((Len(bytes) - 1) % bytes_per_line)

\* C24: page_down(m) sets offset to min(offset + bytes_per_line*lines_per_page*m,
\* start of the line of the last byte), page_up(m) sets it to
\* max(offset - bytes_per_line*lines_per_page*m, 0); either way cursor_pos is
\* the new offset afterwards and the buffer is unchanged.
C24_PageSetsOffsetAndCursor ==
    [][/\ hist'.cmd = "PageDown" =>
             /\ offset' = (IF offset + WindowBytes * hist'.arg <= LastLineStart
                           THEN offset + WindowBytes * hist'.arg
                           ELSE LastLineStart)
             /\ cursor_pos' = offset'
             /\ bytes' = bytes
       /\ hist'.cmd = "PageUp" =>
             /\ offset' = (IF offset - WindowBytes * hist'.arg >= 0
                           THEN offset - WindowBytes * hist'.arg
                           ELSE 0)
             /\ cursor_pos' = offset'
             /\ bytes' = bytes]_vars

\* A page down of one window from the top that the end of the buffer did not
\* cut short.
C24_Witness ==
    /\ hist.cmd = "PageDown"
    /\ hist.arg = 1
    /\ offset = WindowBytes
    /\ cursor_pos = offset
    /\ LastLineStart > offset

\* C25: a cursor move scrolls only when needed: when the cursor after move_up,
\* move_down, move_left or move_right lies in the window of the old offset, the
\* move leaves offset unchanged.
C25_MoveScrollsOnlyWhenNeeded ==
    [][(/\ hist'.cmd \in {"MoveUp", "MoveDown", "MoveLeft", "MoveRight"}
        /\ offset <= cursor_pos'
        /\ cursor_pos' < offset + WindowBytes) =>
          offset' = offset]_vars

\* C26: pending_nibble is Some only while the mode is EditHex; in View and
\* EditAscii it is None, also after an undo that follows a mode change.
C26_PendingOnlyInEditHex == pending_nibble # None => mode = EditHex

\* b is base followed by zero bytes only
IsZeroExtension(b, base) ==
    /\ Len(b) >= Len(base)
    /\ \A i \in 1..Len(base) : b[i] = base[i]
    /\ \A i \in (Len(base) + 1)..Len(b) : b[i] = 0

\* C27: the modified flag never hides an unsaved change: whenever modified is
\* false the buffer is the content as of load or of the last successful save,
\* which is what the file holds, apart from zero bytes appended at the end.
C27_UnmodifiedMeansSaved ==
    ~modified => IsZeroExtension(bytes, Loaded(disk))

\* C28: whenever pending_nibble is Some(d), the byte at cursor_pos has high
\* nibble d: the second hex digit completes the byte whose high nibble the
\* first digit set.
C28_PendingIsHighNibbleAtCursor ==
    pending_nibble # None =>
        /\ cursor_pos < Len(bytes)
        /\ bytes[cursor_pos + 1] \div 16 = pending_nibble[1]

====
